---- MODULE Spec2Model ----
(***************************************************************************)
(* Model of the local patch-evaluation harness                             *)
(* (swebench/harness/run_local_evaluation.py) and of the image reference   *)
(* generator (swebench/harness/image_uri.py).                              *)
(*                                                                         *)
(* Spec     : main() iterating over patch records, with the filesystem     *)
(*            under output_dir as state and the generated entry script     *)
(*            executed step by step as a child process.                    *)
(* SpecUri  : get_dockerhub_image_uri applied, line by line, to arguments  *)
(*            drawn from bounded sets; text is a sequence of characters.   *)
(* SpecEntry: create_entryscript building the environment block and the    *)
(*            setup line of the entry script from bounded texts.           *)
(***************************************************************************)
EXTENDS Integers, Sequences, FiniteSets, TLC

\* ------------------------------------------------------------------ bounds
MaxRecords == 2

\* ------------------------------------------------------------------ inputs
Models == {"m1", "m2"}
KnownInstances == {"i1"}
UnknownInstances == {"ix"}
Null == "None"
Patches == {Null, "diff"}
F2P == {"t1"}
P2P == {"t2"}

PatchRecords ==
  [instance_id : KnownInstances \cup UnknownInstances,
   model_name_or_path : Models,
   model_patch : Patches]

SUCCESS_TEXT == "PATCH_APPLY_SUCCESS\n"
FAILED_TEXT == "PATCH_APPLY_FAILED\n"

EmptyDict == [k \in {} |-> TRUE]

\* dict.update: keys of upd win over keys of base
DictUpdate(base, upd) == upd @@ base


\* --------------------------------------------------------------- strings
\* Text handled by get_dockerhub_image_uri is a sequence of one-character
\* strings.
UpperLetters ==
  <<"A", "B", "C", "D", "E", "F", "G", "H", "I", "J", "K", "L", "M",
    "N", "O", "P", "Q", "R", "S", "T", "U", "V", "W", "X", "Y", "Z">>
LowerLetters ==
  <<"a", "b", "c", "d", "e", "f", "g", "h", "i", "j", "k", "l", "m",
    "n", "o", "p", "q", "r", "s", "t", "u", "v", "w", "x", "y", "z">>

IsUpper(c) == \E i \in 1..26 : UpperLetters[i] = c

LowerChar(c) ==
  IF IsUpper(c)
    THEN LowerLetters[CHOOSE i \in 1..26 : UpperLetters[i] = c]
    ELSE c

\* str.lower()
Lower(s) == [i \in 1..Len(s) |-> LowerChar(s[i])]

\* s[:n]
Take(s, n) == SubSeq(s, 1, IF Len(s) < n THEN Len(s) ELSE n)

StartsWith(s, pre) == Len(pre) <= Len(s) /\ SubSeq(s, 1, Len(pre)) = pre

\* str.endswith
EndsWith(s, suf) ==
  Len(suf) <= Len(s) /\ SubSeq(s, Len(s) - Len(suf) + 1, Len(s)) = suf

\* sub in s
Contains(s, sub) ==
  \E i \in 1..(Len(s) - Len(sub) + 1) : SubSeq(s, i, i + Len(sub) - 1) = sub

\* first index at which sub occurs in s, 0 when it does not
Find(s, sub) ==
  IF Contains(s, sub)
    THEN CHOOSE i \in 1..(Len(s) - Len(sub) + 1) :
           /\ SubSeq(s, i, i + Len(sub) - 1) = sub
           /\ \A j \in 1..(i - 1) : SubSeq(s, j, j + Len(sub) - 1) # sub
    ELSE 0

\* str.replace(old, ""): every non-overlapping occurrence, left to right
RECURSIVE RemoveAll(_, _)
RemoveAll(s, old) ==
  IF Find(s, old) = 0 THEN s
  ELSE SubSeq(s, 1, Find(s, old) - 1)
         \o RemoveAll(SubSeq(s, Find(s, old) + Len(old), Len(s)), old)

\* str.split(sep) for a one-character separator
RECURSIVE Split(_, _)
Split(s, sep) ==
  IF \A i \in 1..Len(s) : s[i] # sep THEN <<s>>
  ELSE LET k == CHOOSE i \in 1..Len(s) :
                  s[i] = sep /\ \A j \in 1..(i - 1) : s[j] # sep
       IN <<SubSeq(s, 1, k - 1)>> \o Split(SubSeq(s, k + 1, Len(s)), sep)

Rep(c, n) == [i \in 1..n |-> c]


\* str.strip() and the whitespace it removes (space, tab, newline, return)
IsSpace(c) == c \in {" ", "\t", "\n", "\r"}

Strip(s) ==
  IF \A i \in 1..Len(s) : IsSpace(s[i]) THEN << >>
  ELSE SubSeq(s,
         CHOOSE i \in 1..Len(s) :
           ~IsSpace(s[i]) /\ \A j \in 1..(i - 1) : IsSpace(s[j]),
         CHOOSE i \in 1..Len(s) :
           ~IsSpace(s[i]) /\ \A j \in (i + 1)..Len(s) : IsSpace(s[j]))

\* variant of ReplaceFirst without the count argument
ReplaceFirst_All(s, old, new) ==
  IF Find(s, old) = 0 THEN s
  ELSE LET t == SubSeq(s, Find(s, old) + Len(old), Len(s)) IN
       SubSeq(s, 1, Find(s, old) - 1) \o new \o
         (IF Find(t, old) = 0 THEN t
          ELSE SubSeq(t, 1, Find(t, old) - 1) \o new
                 \o SubSeq(t, Find(t, old) + Len(old), Len(t)))

\* str.replace(old, new, 1)
ReplaceFirst(s, old, new) ==
  IF Find(s, old) = 0 THEN s
  ELSE SubSeq(s, 1, Find(s, old) - 1) \o new
         \o SubSeq(s, Find(s, old) + Len(old), Len(s))

\* sep.join(list)
RECURSIVE Join(_, _)
Join(list, sep) ==
  IF Len(list) = 0 THEN << >>
  ELSE IF Len(list) = 1 THEN list[1]
  ELSE list[1] \o sep \o Join(Tail(list), sep)

Cmd_Empty == << >>
Cmd_One == <<"a">>
Cmd_Two == <<"a", "\n", "b">>
Cmd_TwoNl == <<"a", "\n", "b", "\n">>
Cmd_TrailSpace == <<"a", "\n", "b", " ", "\n">>
Cmd_BlankLast == <<"a", "\n", " ", "\n">>
Cmd_Indented == <<" ", "a", "\n", " ", " ", "b">>
Df_Empty == << >>
Df_Plain == <<"F", " ", "x", "\n", "E", "N", "V", " ", "A", "\n", "R", " ", "y">>
Df_Indented == <<" ", " ", "E", "N", "V", " ", "B", " ", "\n">>
Df_Twice == <<"E", "N", "V", " ", "C", "\n", "E", "N", "V", " ", "E", "N", "V">>
Df_Prefix == <<"E", "N", "V", "X">>
Df_Lower == <<"e", "n", "v", " ", "a", "\n", "R">>
S_ENV == <<"E", "N", "V">>
S_export == <<"e", "x", "p", "o", "r", "t">>

\* ------------------------------------------------ create_entryscript inputs
SetupCmds ==
  {Cmd_Empty, Cmd_One, Cmd_Two, Cmd_TwoNl, Cmd_TrailSpace, Cmd_BlankLast,
   Cmd_Indented}
Dockerfiles ==
  {Df_Empty, Df_Plain, Df_Indented, Df_Twice, Df_Prefix, Df_Lower}

S_instance_ ==
  <<"i", "n", "s", "t", "a", "n", "c", "e", "_">>
S_vnan ==
  <<"-", "v", "n", "a", "n">>
S_element_hq ==
  <<"e", "l", "e", "m", "e", "n", "t", "-", "h", "q">>
S_element_web ==
  <<"e", "l", "e", "m", "e", "n", "t", "-", "w", "e", "b">>
S_element ==
  <<"e", "l", "e", "m", "e", "n", "t">>
S_sweap ==
  <<"/", "s", "w", "e", "a", "p", "-", "i", "m", "a", "g", "e", "s", ":">>
LegacyUid ==
  <<"i", "n", "s", "t", "a", "n", "c", "e", "_", "e", "l", "e", "m", "e",
   "n", "t", "-", "h", "q", "_", "_", "e", "l", "e", "m", "e", "n", "t",
   "-", "w", "e", "b", "-", "e", "c", "0", "f", "9", "4", "0", "e", "f",
   "0", "e", "8", "e", "3", "b", "6", "1", "0", "7", "8", "f", "1", "4",
   "5", "f", "3", "4", "d", "c", "4", "0", "d", "1", "9", "3", "8", "e",
   "6", "c", "5", "-", "v", "n", "a", "n">>
Uid_A ==
  <<"i", "n", "s", "t", "a", "n", "c", "e", "_", "r", "e", "p", "o", "-",
   "a", "b", "c", "1", "2", "3", "-", "v", "1">>
Uid_B ==
  <<"i", "n", "s", "t", "a", "n", "c", "e", "_", "f", "o", "o", "-", "v",
   "1", "-", "v", "n", "a", "n">>
Uid_Inner ==
  <<"x", "_", "i", "n", "s", "t", "a", "n", "c", "e", "_", "y", "-", "v",
   "n", "a", "n">>
Uid_Plain ==
  <<"a", "b", "c">>
User_alice ==
  <<"a", "l", "i", "c", "e">>
User_bob ==
  <<"b", "o", "b">>
Repo_A ==
  <<"O", "r", "g", "/", "R", "e", "p", "o">>
Repo_Family ==
  <<"e", "l", "e", "m", "e", "n", "t", "-", "h", "q", "/", "e", "l", "e",
   "m", "e", "n", "t", "-", "w", "e", "b">>
Repo_FamilyUpper ==
  <<"E", "l", "e", "m", "e", "n", "t", "-", "H", "Q", "/", "E", "l", "e",
   "m", "e", "n", "t", "-", "W", "e", "b", "-", "F", "o", "r", "k">>
Repo_NoSlash ==
  <<"o", "r", "g", "r", "e", "p", "o">>
Repo_TwoSlash ==
  <<"a", "/", "b", "/", "c">>

\* ------------------------------------------------------ image_uri inputs
LongLen == 130
MaxTag == 128

Uid_Long == S_instance_ \o Rep("a", LongLen)
Repo_LongOrg == Rep("L", LongLen) \o <<"/", "r">>
Repo_Edge == Rep("Q", MaxTag - 4) \o <<"/", "r">>

Uids == {LegacyUid, Uid_A, Uid_B, Uid_Inner, Uid_Plain, Uid_Long}
Users == {User_alice, User_bob}
RepoNames ==
  {Repo_A, Repo_Family, Repo_FamilyUpper, Repo_LongOrg, Repo_Edge,
   Repo_NoSlash, Repo_TwoSlash}

\* ---------------------------------------------------- parser output.json
T(n, s) == [name |-> n, status |-> s]
TestList(items) == [isList |-> TRUE, items |-> items]
NoTests == TestList(<< >>)
Obj(d) == [kind |-> "object", obj |-> d]

\* What the (opaque) parser program may leave in workspace/output.json.
ParserOutputs ==
  { [kind |-> "badsyntax"],
    [kind |-> "undecodable"],
    [kind |-> "nonobject"],
    Obj(EmptyDict),
    Obj([tests |-> NoTests]),
    Obj([tests |-> TestList(<<T("t1", "PASSED"), T("t2", "PASSED")>>)]),
    Obj([tests |-> TestList(<<T("t1", "PASSED"), T("t2", "FAILED")>>)]),
    Obj([tests |-> TestList(<<[foo |-> "bar"]>>)]),
    Obj([tests |-> [isList |-> FALSE, items |-> << >>]]),
    Obj([patch_successfully_applied |-> FALSE,
         tests |-> TestList(<<T("t1", "PASSED"), T("t2", "PASSED")>>)]),
    Obj([resolved |-> TRUE, tests |-> NoTests]),
    Obj([patch_exists |-> FALSE, tests |-> NoTests]) }

AbsentContent == [kind |-> "absent"]

\* ------------------------------------------------------------ filesystem
NoFile == [exists |-> FALSE, data |-> EmptyDict]
NoText == [exists |-> FALSE, text |-> ""]

EmptyDir ==
  [uid_dir |-> FALSE, workspace |-> FALSE, files |-> FALSE, logs |-> FALSE,
   patch_status |-> NoText, ws_output |-> AbsentContent,
   output_json |-> NoFile, report_json |-> NoFile]

Dirs == Models \X KnownInstances

FreshRun ==
  [hit |-> FALSE, prepared |-> FALSE, ws_created |-> FALSE, wrote |-> FALSE,
   ran |-> FALSE, regen |-> FALSE, applied |-> "none", steps |-> << >>,
   rc |-> -1, collected |-> FALSE, reported |-> FALSE, raised |-> FALSE,
   wrote_output |-> FALSE]

NoneOut == [isNone |-> TRUE, val |-> EmptyDict]

VARIABLES
  writable,  \* directories and files can be created under args.output_dir
  redo,      \* args.redo
  scripts,   \* run_script.sh and parser.py exist under scripts_dir/instance
  fs,        \* output_dir/<model>/<instance>/...
  count,     \* patch records taken from patches_to_run so far
  cur,       \* patch_sample of the current iteration
  pc,        \* position of main / eval_internal / the entry script
  res,       \* eval_results of the current iteration
  out,       \* value returned by eval_internal
  prepRet,   \* value returned by prepare_run
  run        \* what the current iteration has done so far

\* get_dockerhub_image_uri: arguments, position and locals
VARIABLES
  uid, dockerhub_username, repo_name,
  upc, repo_base, repo_name_only, hsh, tag, uri

hvars == <<writable, redo, scripts, fs, count, cur, pc, res, out, prepRet, run>>
uvars == <<uid, dockerhub_username, repo_name,
           upc, repo_base, repo_name_only, hsh, tag, uri>>
\* create_entryscript: sample["before_repo_set_cmd"], the two dockerfile
\* texts, position and locals
VARIABLES
  sample_cmd, base_dockerfile, instance_dockerfile,
  epc, before_repo_set_cmd, file_ix, line_ix, env_cmds, env_block,
  entry_script

evars == <<sample_cmd, base_dockerfile, instance_dockerfile,
           epc, before_repo_set_cmd, file_ix, line_ix, env_cmds, env_block,
           entry_script>>
vars == <<hvars, uvars, evars>>

\* variant of CurDir placing every record under the first model's directory
CurDir_Shared == <<"m1", cur.instance_id>>

\* lines 214, 89, 91, 94, 123, 248: every path is output_dir/<model>/<instance>
CurDir == <<cur.model_name_or_path, cur.instance_id>>

\* ------------------------------------------------------------ prepare_run
\* line 92: the cached-output test
PrepareRunHit(d, rd) == ~rd /\ d.output_json.exists

\* lines 90-95: directories after prepare_run
PrepareRunDir(d, rd) ==
  IF PrepareRunHit(d, rd)
    THEN [d EXCEPT !.uid_dir = TRUE]
    ELSE [d EXCEPT !.uid_dir = TRUE, !.workspace = TRUE]

\* lines 90 and 95: os.makedirs raises when it has to create a directory
\* and cannot
PrepareRunRaises(d, rd, w) ==
  /\ ~w
  /\ \/ ~d.uid_dir
     \/ ~PrepareRunHit(d, rd) /\ ~d.workspace

\* lines 93 and 96: the returned triple, paths as component sequences
PrepareRunRet(iid, output_dir, d, rd) ==
  IF PrepareRunHit(d, rd)
    THEN <<"None", output_dir \o <<iid, "output.json">>,
           output_dir \o <<iid, "workspace">>>>
    ELSE <<"None", output_dir \o <<iid, "output.json">>,
           output_dir \o <<iid, "workspace">>>>

\* ------------------------------------------------- collect_outputs_local
\* line 129: "PATCH_APPLY_SUCCESS" in f.read(), over the two texts the
\* entry script can write
HasSuccess(text) == text = SUCCESS_TEXT

\* lines 126-130
PatchSuccess(ps) == ps.exists /\ HasSuccess(ps.text)

\* variant of LoadOutcome without the except clause of lines 138-139
LoadOutcome_NoCatch(c) ==
  CASE c.kind = "absent" -> "skip"
    [] c.kind = "badsyntax" -> "raise"
    [] c.kind = "undecodable" -> "raise"
    [] c.kind = "nonobject" -> "raise"
    [] c.kind = "object" -> "update"

\* lines 134-139: what reading workspace/output.json does
\*   "skip"   file absent              "pass"   JSONDecodeError swallowed
\*   "raise"  another exception leaves collect_outputs_local
\*   "update" output.update(parsed object)
LoadOutcome(c) ==
  CASE c.kind = "absent" -> "skip"
    [] c.kind = "badsyntax" -> "pass"
    [] c.kind = "undecodable" -> "raise"
    [] c.kind = "nonobject" -> "raise"
    [] c.kind = "object" -> "update"

\* lines 132-139: the merged record (when nothing is raised)
CollectOutput(d) ==
  LET base == [patch_successfully_applied |-> PatchSuccess(d.patch_status),
               tests |-> NoTests]
  IN IF LoadOutcome(d.ws_output) = "update"
       THEN DictUpdate(base, d.ws_output.obj)
       ELSE base

CollectRaises(d) == LoadOutcome(d.ws_output) = "raise"

\* ---------------------------------------------------------- entry script
\* variant of GateExits without the "exit 1" of line 77
GateExits_NoExit(ok) == FALSE

\* lines 73-78: the if/else after git apply; TRUE when the script exits
GateExits(ok) == ~ok

GateText(ok) == IF ok THEN SUCCESS_TEXT ELSE FAILED_TEXT

\* ------------------------------------------------------------------ main
\* lines 240-242; the comprehension reads x["status"] then x["name"]
TestsUsable(tests) ==
  /\ tests.isList
  /\ \A i \in 1..Len(tests.items) :
       /\ "status" \in DOMAIN tests.items[i]
       /\ tests.items[i].status = "PASSED" => "name" \in DOMAIN tests.items[i]

PassedTests(tests) ==
  { tests.items[i].name :
      i \in { j \in 1..Len(tests.items) : tests.items[j].status = "PASSED" } }

\* lines 244-246
Resolved(tests) == (F2P \cup P2P) \subseteq PassedTests(tests)

\* lines 216-223
BaseResults(iid) ==
  iid :> [patch_is_None |-> FALSE, patch_exists |-> FALSE,
          patch_successfully_applied |-> FALSE, resolved |-> FALSE]

\* ------------------------------------------------------------------- Init
Init ==
  /\ writable \in BOOLEAN
  /\ redo \in BOOLEAN
  /\ scripts \in BOOLEAN
  /\ fs = [d \in Dirs |-> EmptyDir]
  /\ count = 0
  /\ cur = [instance_id |-> "ix", model_name_or_path |-> "m1",
            model_patch |-> Null]
  /\ pc = "loop"
  /\ res = EmptyDict
  /\ out = NoneOut
  /\ prepRet = << >>
  /\ run = FreshRun
  /\ uid = << >> /\ dockerhub_username = << >> /\ repo_name = << >>
  /\ upc = "idle"
  /\ repo_base = << >> /\ repo_name_only = << >> /\ hsh = << >>
  /\ tag = << >> /\ uri = << >>
  /\ sample_cmd = << >> /\ base_dockerfile = << >>
  /\ instance_dockerfile = << >> /\ epc = "idle"
  /\ before_repo_set_cmd = << >> /\ file_ix = 1 /\ line_ix = 1
  /\ env_cmds = << >> /\ env_block = << >> /\ entry_script = << >>

Step(name) == [run EXCEPT !.steps = Append(@, name)]

\* lines 209-212: a record with an unknown instance_id is skipped
SkipUnknown ==
  /\ pc = "loop" /\ count < MaxRecords
  /\ \E r \in PatchRecords :
       /\ r.instance_id \notin KnownInstances
       /\ cur' = r
  /\ count' = count + 1
  /\ run' = FreshRun
  /\ res' = EmptyDict /\ out' = NoneOut /\ prepRet' = << >>
  /\ UNCHANGED <<evars, uvars, writable, redo, scripts, fs, pc>>

\* lines 209-223: next record, eval_results initialised
BeginRecord ==
  /\ pc = "loop" /\ count < MaxRecords
  /\ \E r \in PatchRecords :
       /\ r.instance_id \in KnownInstances
       /\ cur' = r
       /\ res' = BaseResults(r.instance_id)
  /\ count' = count + 1
  /\ run' = FreshRun
  /\ out' = NoneOut /\ prepRet' = << >>
  /\ pc' = "branch"
  /\ UNCHANGED <<evars, uvars, writable, redo, scripts, fs>>

\* the for loop is exhausted
Finish ==
  /\ pc = "loop"
  /\ pc' = "done"
  /\ UNCHANGED <<evars, uvars, writable, redo, scripts, fs, count, cur, res, out, prepRet, run>>

\* lines 225-226
NullPatch ==
  /\ pc = "branch" /\ cur.model_patch = Null
  /\ res' = [res EXCEPT ![cur.instance_id].patch_is_None = TRUE]
  /\ pc' = "report"
  /\ UNCHANGED <<evars, uvars, writable, redo, scripts, fs, count, cur, out, prepRet, run>>

\* lines 228-229 and 153-155: patch_exists, then eval_internal calls
\* prepare_run, outside its try block
PrepareRun ==
  /\ pc = "branch" /\ cur.model_patch # Null
  /\ res' = [res EXCEPT ![cur.instance_id].patch_exists = TRUE]
  /\ IF PrepareRunRaises(fs[CurDir], redo, writable)
       THEN /\ run' = [run EXCEPT !.raised = TRUE]
            /\ pc' = "crashed"
            /\ UNCHANGED <<fs, prepRet>>
       ELSE /\ fs' = [fs EXCEPT ![CurDir] = PrepareRunDir(@, redo)]
            /\ prepRet' = PrepareRunRet(cur.instance_id,
                                        <<cur.model_name_or_path>>,
                                        fs[CurDir], redo)
            /\ run' = [run EXCEPT !.hit = PrepareRunHit(fs[CurDir], redo),
                                  !.prepared = TRUE,
                                  !.ws_created = fs'[CurDir].workspace
                                                   /\ ~fs[CurDir].workspace]
            /\ pc' = "assemble"
  /\ UNCHANGED <<evars, uvars, writable, redo, scripts, count, cur, out>>

\* lines 99-110 (and 176-178 when load_local_script raises)
Assemble ==
  /\ pc = "assemble"
  /\ IF scripts
       THEN pc' = "write" /\ out' = out /\ run' = run
       ELSE /\ pc' = "merge" /\ out' = NoneOut
            /\ run' = [run EXCEPT !.raised = TRUE]
  /\ UNCHANGED <<evars, uvars, writable, redo, scripts, fs, count, cur, res, prepRet>>

\* lines 113-117 (open() raises when the workspace directory is missing)
WriteFiles ==
  /\ pc = "write"
  /\ IF fs[CurDir].workspace
       THEN /\ fs' = [fs EXCEPT ![CurDir].files = TRUE]
            /\ run' = [run EXCEPT !.wrote = TRUE]
            /\ pc' = "launch" /\ out' = out
       ELSE /\ pc' = "merge" /\ out' = NoneOut
            /\ run' = [run EXCEPT !.raised = TRUE]
            /\ fs' = fs
  /\ UNCHANGED <<evars, uvars, writable, redo, scripts, count, cur, res, prepRet>>

\* line 168: subprocess.run(["bash", script_path])
Launch ==
  /\ pc = "launch"
  /\ run' = [run EXCEPT !.ran = TRUE]
  /\ pc' = "s_env"
  /\ UNCHANGED <<evars, uvars, writable, redo, scripts, fs, count, cur, res, out, prepRet>>

\* a script line whose exit status bash ignores
ScriptLine(at, name, next) ==
  /\ pc = at
  /\ run' = Step(name)
  /\ pc' = next
  /\ UNCHANGED <<evars, uvars, writable, redo, scripts, fs, count, cur, res, out, prepRet>>

\* line 67
S_Env == ScriptLine("s_env", "env", "s_cd")
\* line 69
S_Cd == ScriptLine("s_cd", "cd", "s_reset")
\* line 70
S_Reset == ScriptLine("s_reset", "reset", "s_checkout")
\* line 71
S_Checkout == ScriptLine("s_checkout", "checkout", "s_apply")

\* line 72: git apply succeeds or fails
S_Apply ==
  /\ pc = "s_apply"
  /\ \E ok \in BOOLEAN :
       run' = [Step("apply") EXCEPT !.applied = IF ok THEN "ok" ELSE "fail"]
  /\ pc' = "s_gate"
  /\ UNCHANGED <<evars, uvars, writable, redo, scripts, fs, count, cur, res, out, prepRet>>

\* lines 73-78
S_Gate ==
  /\ pc = "s_gate"
  /\ LET ok == run.applied = "ok" IN
       /\ fs' = [fs EXCEPT ![CurDir].patch_status =
                   [exists |-> TRUE, text |-> GateText(ok)]]
       /\ IF GateExits(ok)
            THEN /\ run' = [Step("sentinel") EXCEPT !.rc = 1]
                 /\ pc' = "collect"
            ELSE /\ run' = Step("sentinel")
                 /\ pc' = "s_setup"
  /\ UNCHANGED <<evars, uvars, writable, redo, scripts, count, cur, res, out, prepRet>>

\* line 79
S_Setup == ScriptLine("s_setup", "setup", "s_run")

\* line 81: run script, stdout.log and stderr.log created by the redirections
S_Run ==
  /\ pc = "s_run"
  /\ fs' = [fs EXCEPT ![CurDir].logs = TRUE]
  /\ run' = Step("run")
  /\ pc' = "s_parser"
  /\ UNCHANGED <<evars, uvars, writable, redo, scripts, count, cur, res, out, prepRet>>

\* line 83: the parser writes output.json, or fails without writing it;
\* its exit status is the script's
S_Parser ==
  /\ pc = "s_parser"
  /\ \E c \in ParserOutputs \cup {AbsentContent}, code \in {0, 1} :
       /\ fs' = [fs EXCEPT ![CurDir].ws_output =
                   IF c = AbsentContent THEN @ ELSE c]
       /\ run' = [Step("parser") EXCEPT !.rc = code,
                                        !.wrote_output = c # AbsentContent]
  /\ pc' = "collect"
  /\ UNCHANGED <<evars, uvars, writable, redo, scripts, count, cur, res, out, prepRet>>

\* lines 170-178 and 120-145
Collect ==
  /\ pc = "collect"
  /\ IF CollectRaises(fs[CurDir])
       THEN /\ out' = NoneOut
            /\ run' = [run EXCEPT !.raised = TRUE]
            /\ fs' = fs
       ELSE /\ out' = [isNone |-> FALSE, val |-> CollectOutput(fs[CurDir])]
            /\ fs' = [fs EXCEPT ![CurDir].output_json =
                        [exists |-> TRUE, data |-> CollectOutput(fs[CurDir])]]
            /\ run' = [run EXCEPT !.regen = TRUE, !.collected = TRUE]
  /\ pc' = "merge"
  /\ UNCHANGED <<evars, uvars, writable, redo, scripts, count, cur, res, prepRet>>

\* lines 237-246
Merge ==
  /\ pc = "merge"
  /\ IF out.isNone
       THEN pc' = "report" /\ res' = res
       ELSE LET merged == DictUpdate(res[cur.instance_id], out.val) IN
            IF out.val.patch_successfully_applied
              THEN IF TestsUsable(out.val.tests)
                     THEN /\ res' = [res EXCEPT ![cur.instance_id] =
                                  [merged EXCEPT !.resolved =
                                     Resolved(out.val.tests)]]
                          /\ pc' = "report"
                     ELSE /\ res' = [res EXCEPT ![cur.instance_id] = merged]
                          /\ pc' = "crashed"
              ELSE /\ res' = [res EXCEPT ![cur.instance_id] = merged]
                   /\ pc' = "report"
  /\ UNCHANGED <<evars, uvars, writable, redo, scripts, fs, count, cur, out, prepRet, run>>

\* lines 248-249: open(.., "w") raises when output_dir/instance_id is missing
Report ==
  /\ pc = "report"
  /\ IF fs[CurDir].uid_dir
       THEN /\ fs' = [fs EXCEPT ![CurDir].report_json =
                        [exists |-> TRUE, data |-> res]]
            /\ run' = [run EXCEPT !.reported = TRUE]
            /\ pc' = "loop"
       ELSE /\ pc' = "crashed"
            /\ UNCHANGED <<fs, run>>
  /\ UNCHANGED <<evars, uvars, writable, redo, scripts, count, cur, res, out, prepRet>>

Next ==
  \/ SkipUnknown \/ BeginRecord \/ Finish \/ NullPatch \/ PrepareRun
  \/ Assemble \/ WriteFiles \/ Launch
  \/ S_Env \/ S_Cd \/ S_Reset \/ S_Checkout \/ S_Apply \/ S_Gate
  \/ S_Setup \/ S_Run \/ S_Parser
  \/ Collect \/ Merge \/ Report

Spec == Init /\ [][Next]_vars

\* ------------------------------------------------ get_dockerhub_image_uri
\* variant of Truncate cutting one character late
Truncate_Late(t) == IF Len(t) > MaxTag + 1 THEN Take(t, MaxTag + 1) ELSE t

\* lines 28-29
Truncate(t) == IF Len(t) > MaxTag THEN Take(t, MaxTag) ELSE t

\* line 27
ComposeTag(base, name, h) == base \o <<".">> \o name \o <<"-">> \o h

\* variant of OverrideName testing the project family before the legacy uid
OverrideName_FamilyFirst(u, rn, name) ==
  IF Contains(Lower(rn), S_element_hq) /\ Contains(Lower(rn), S_element_web)
    THEN S_element
    ELSE IF u = LegacyUid THEN S_element_web ELSE name

\* lines 14-25: the repository component
OverrideName(u, rn, name) ==
  IF u = LegacyUid THEN S_element_web
  ELSE IF Contains(Lower(rn), S_element_hq) /\ Contains(Lower(rn), S_element_web)
         THEN S_element
         ELSE name

\* lines 14-25: the hash part
OverrideHash(u, rn, h) ==
  IF u = LegacyUid THEN h
  ELSE IF EndsWith(h, S_vnan) THEN SubSeq(h, 1, Len(h) - 5) ELSE h

InitUri ==
  /\ uid \in Uids
  /\ dockerhub_username \in Users
  /\ repo_name \in RepoNames
  /\ upc = "split"
  /\ repo_base = << >> /\ repo_name_only = << >> /\ hsh = << >>
  /\ tag = << >> /\ uri = << >>
  /\ writable = TRUE /\ redo = FALSE /\ scripts = FALSE
  /\ fs = [d \in Dirs |-> EmptyDir]
  /\ count = 0
  /\ cur = [instance_id |-> "ix", model_name_or_path |-> "m1",
            model_patch |-> Null]
  /\ pc = "off"
  /\ res = EmptyDict /\ out = NoneOut /\ prepRet = << >> /\ run = FreshRun
  /\ sample_cmd = << >> /\ base_dockerfile = << >>
  /\ instance_dockerfile = << >> /\ epc = "idle"
  /\ before_repo_set_cmd = << >> /\ file_ix = 1 /\ line_ix = 1
  /\ env_cmds = << >> /\ env_block = << >> /\ entry_script = << >>

\* line 11: two-name unpacking of the split raises unless there are two parts
U_Split ==
  /\ upc = "split"
  /\ LET parts == Split(Lower(repo_name), "/") IN
       IF Len(parts) = 2
         THEN /\ repo_base' = parts[1]
              /\ repo_name_only' = parts[2]
              /\ upc' = "strip"
         ELSE /\ upc' = "error"
              /\ UNCHANGED <<repo_base, repo_name_only>>
  /\ UNCHANGED <<evars, hvars, uid, dockerhub_username, repo_name, hsh, tag, uri>>

\* line 12
U_Strip ==
  /\ upc = "strip"
  /\ hsh' = RemoveAll(uid, S_instance_)
  /\ upc' = "override"
  /\ UNCHANGED <<evars, hvars, uid, dockerhub_username, repo_name,
                 repo_base, repo_name_only, tag, uri>>

\* lines 14-25
U_Override ==
  /\ upc = "override"
  /\ repo_name_only' = OverrideName(uid, repo_name, repo_name_only)
  /\ hsh' = OverrideHash(uid, repo_name, hsh)
  /\ upc' = "tag"
  /\ UNCHANGED <<evars, hvars, uid, dockerhub_username, repo_name,
                 repo_base, tag, uri>>

\* lines 27-29
U_Tag ==
  /\ upc = "tag"
  /\ tag' = Truncate(ComposeTag(repo_base, repo_name_only, hsh))
  /\ upc' = "return"
  /\ UNCHANGED <<evars, hvars, uid, dockerhub_username, repo_name,
                 repo_base, repo_name_only, hsh, uri>>

\* line 31
U_Return ==
  /\ upc = "return"
  /\ uri' = dockerhub_username \o S_sweap \o tag
  /\ upc' = "done"
  /\ UNCHANGED <<evars, hvars, uid, dockerhub_username, repo_name,
                 repo_base, repo_name_only, hsh, tag>>

NextUri == U_Split \/ U_Strip \/ U_Override \/ U_Tag \/ U_Return

SpecUri == InitUri /\ [][NextUri]_vars

\* ================================================================= claims
Ended == pc \in {"loop", "done", "crashed"} /\ count > 0

ReportOf(d) == fs[d].report_json.data[d[2]]

\* names of the report's test entries whose status is "PASSED"
ReportPassed(r) ==
  IF "tests" \in DOMAIN r /\ r.tests.isList
    THEN { r.tests.items[i].name :
             i \in { j \in 1..Len(r.tests.items) :
                       /\ "status" \in DOMAIN r.tests.items[j]
                       /\ "name" \in DOMAIN r.tests.items[j]
                       /\ r.tests.items[j].status = "PASSED" } }
    ELSE {}

\* C1: in every report.json written, resolved is true iff the report's
\* patch_successfully_applied is true and every name of fail_to_pass and
\* pass_to_pass names a test entry of the report with status "PASSED".
C1_ResolvedIff ==
  \A d \in Dirs :
    fs[d].report_json.exists =>
      (ReportOf(d).resolved <=>
         (ReportOf(d).patch_successfully_applied
            /\ (F2P \cup P2P) \subseteq ReportPassed(ReportOf(d))))

\* C2: when prepare_run finds output.json with redo = false (a cache hit),
\* the iteration does not rewrite the workspace files, does not execute the
\* entry script and does not regenerate the canonical output.json.
C2_CacheHitSkips ==
  run.hit => ~run.wrote /\ ~run.ran /\ ~run.regen

ScriptOrder ==
  <<"env", "cd", "reset", "checkout", "apply", "sentinel",
    "setup", "run", "parser">>

\* C3: the entry script runs its steps in the fixed order; setup, run script
\* and parser happen only after git apply succeeded and the success sentinel
\* was written; after a failed git apply the script writes the failure
\* sentinel and ends with nonzero status before any later step.
C3_ScriptGated ==
  /\ Len(run.steps) <= Len(ScriptOrder)
  /\ \A i \in 1..Len(run.steps) : run.steps[i] = ScriptOrder[i]
  /\ \A i \in 1..Len(run.steps) :
       run.steps[i] \in {"setup", "run", "parser"} =>
         /\ run.applied = "ok"
         /\ fs[CurDir].patch_status = [exists |-> TRUE, text |-> SUCCESS_TEXT]
  /\ pc \in {"s_setup", "s_run", "s_parser"} =>
       /\ run.applied = "ok"
       /\ fs[CurDir].patch_status = [exists |-> TRUE, text |-> SUCCESS_TEXT]
  /\ (run.applied = "fail" /\ pc # "s_gate") =>
       /\ run.steps = SubSeq(ScriptOrder, 1, 6)
       /\ fs[CurDir].patch_status = [exists |-> TRUE, text |-> FAILED_TEXT]
       /\ run.rc # 0 /\ run.rc # -1

C3_Witness ==
  /\ pc = "collect" /\ run.applied = "fail"
  /\ run.steps = SubSeq(ScriptOrder, 1, 6)

C3_WitnessApplied ==
  pc = "collect" /\ run.applied = "ok" /\ run.steps = ScriptOrder

\* C4: the patch_successfully_applied value that collect_outputs_local
\* returns and writes to the canonical output.json is true exactly when
\* patch_status.txt exists and contains the success text, whatever the
\* workspace output.json holds.
C4_SentinelOnly ==
  (pc = "merge" /\ run.collected) =>
    /\ out.val.patch_successfully_applied
         = PatchSuccess(fs[CurDir].patch_status)
    /\ fs[CurDir].output_json.data.patch_successfully_applied
         = PatchSuccess(fs[CurDir].patch_status)

\* C5: main never stops on a per-instance failure, and every processed
\* record with a known instance_id has its report.json written.
C5_BatchCompletes ==
  /\ pc # "crashed"
  /\ (pc \in {"loop", "done"} /\ count > 0
        /\ cur.instance_id \in KnownInstances) => run.reported

\* C6: when git apply fails for a record, the sentinel holds the failure
\* text and the record's report has patch_successfully_applied = false,
\* resolved = false and tests = [] (a report without a tests entry is not
\* counted against the claim).
C6_ApplyFailedReport ==
  (Ended /\ run.applied = "fail") =>
    /\ fs[CurDir].patch_status = [exists |-> TRUE, text |-> FAILED_TEXT]
    /\ run.reported
    /\ ReportOf(CurDir).patch_successfully_applied = FALSE
    /\ ReportOf(CurDir).resolved = FALSE
    /\ "tests" \in DOMAIN ReportOf(CurDir) =>
         ReportOf(CurDir).tests = NoTests

\* C7: a record with a known instance_id and a null model_patch gets a
\* report with patch_is_None = true, patch_exists = false,
\* patch_successfully_applied = false and resolved = false, and no workspace
\* is prepared and no entry script executed for it.
C7_NullPatchReport ==
  (Ended /\ cur.instance_id \in KnownInstances /\ cur.model_patch = Null) =>
    /\ run.reported
    /\ ReportOf(CurDir) =
         [patch_is_None |-> TRUE, patch_exists |-> FALSE,
          patch_successfully_applied |-> FALSE, resolved |-> FALSE]
    /\ ~run.prepared /\ ~run.ran

\* C8: prepare_run on a cache hit returns a value that differs from what a
\* fresh preparation with the same arguments returns, and creates nothing
\* in the workspace subdirectory.
C8_CacheHitSignal ==
  run.hit =>
    /\ prepRet # PrepareRunRet(cur.instance_id, <<cur.model_name_or_path>>,
                               EmptyDir, redo)
    /\ ~run.ws_created

OrgOf(rn) == SubSeq(rn, 1, (CHOOSE i \in 1..Len(rn) : rn[i] = "/") - 1)

OneSlash(rn) == Cardinality({i \in 1..Len(rn) : rn[i] = "/"}) = 1

\* C10: for repo_name with exactly one "/", the result is
\* registry_user + "/sweap-images:" + tag where tag is the first 128
\* characters of lower(org) + "." + component + "-" + hash_part; the tag is
\* at most 128 long and its org segment has no uppercase letter.
C10_TagShape ==
  (upc = "done" /\ OneSlash(repo_name)) =>
    LET full == Lower(OrgOf(repo_name)) \o <<".">> \o repo_name_only
                  \o <<"-">> \o hsh
    IN /\ Len(tag) <= 128
       /\ Len(tag) = (IF Len(full) <= 128 THEN Len(full) ELSE 128)
       /\ \A i \in 1..Len(tag) : tag[i] = full[i]
       /\ \A i \in 1..Len(tag) : i <= Len(OrgOf(repo_name)) => ~IsUpper(tag[i])
       /\ Len(uri) = Len(dockerhub_username) + 14 + Len(tag)
       /\ SubSeq(uri, 1, Len(dockerhub_username)) = dockerhub_username
       /\ SubSeq(uri, Len(dockerhub_username) + 1,
                 Len(dockerhub_username) + 14) = S_sweap
       /\ SubSeq(uri, Len(dockerhub_username) + 15, Len(uri)) = tag

C10_Witness ==
  /\ upc = "done" /\ OneSlash(repo_name)
  /\ Len(repo_base) + 1 + Len(repo_name_only) + 1 + Len(hsh) > 128
  /\ Len(tag) = 128
  /\ \E i \in 1..Len(repo_name) : IsUpper(repo_name[i])


\* s without a leading pre, s itself when it does not start with pre
StripPrefix(s, pre) ==
  IF StartsWith(s, pre) THEN SubSeq(s, Len(pre) + 1, Len(s)) ELSE s

\* s without a trailing suf, s itself when it does not end with suf
StripSuffix(s, suf) ==
  IF EndsWith(s, suf) THEN SubSeq(s, 1, Len(s) - Len(suf)) ELSE s

\* repo_name holds both family substrings, whatever the case of its letters
FamilyRepo(rn) ==
  /\ \E i \in 1..Len(rn) :
       i + 9 <= Len(rn) /\ \A k \in 1..10 : LowerChar(rn[i + k - 1]) = S_element_hq[k]
  /\ \E i \in 1..Len(rn) :
       i + 10 <= Len(rn) /\ \A k \in 1..11 : LowerChar(rn[i + k - 1]) = S_element_web[k]

\* the repository part of repo_name as given: the text after its "/"
RepoOf(rn) == SubSeq(rn, (CHOOSE i \in 1..Len(rn) : rn[i] = "/") + 1, Len(rn))

\* C11: outside the legacy and family cases the hash part is the uid with
\* only a leading "instance_" removed (an "instance_" further inside is
\* kept) and then one trailing "-vnan" removed if present.
C11_PrefixOnly ==
  (upc = "done" /\ OneSlash(repo_name) /\ uid # LegacyUid
     /\ ~FamilyRepo(repo_name)) =>
    hsh = StripSuffix(StripPrefix(uid, S_instance_), S_vnan)

\* C12: overrides in priority order legacy, family, default: the legacy uid
\* gives component "element-web" and a hash that keeps "-vnan"; any other
\* uid with a family repo_name gives component "element" and a hash without
\* a trailing "-vnan"; otherwise the component is the lowercased repo part.
C12_OverridePriority ==
  (upc = "done" /\ OneSlash(repo_name)) =>
    /\ uid = LegacyUid =>
         /\ repo_name_only = S_element_web
         /\ EndsWith(hsh, S_vnan)
         /\ S_instance_ \o hsh = uid
    /\ (uid # LegacyUid /\ FamilyRepo(repo_name)) =>
         /\ repo_name_only = S_element
         /\ IF EndsWith(RemoveAll(uid, S_instance_), S_vnan)
              THEN hsh \o S_vnan = RemoveAll(uid, S_instance_)
              ELSE hsh = RemoveAll(uid, S_instance_)
    /\ (uid # LegacyUid /\ ~FamilyRepo(repo_name)) =>
         repo_name_only = Lower(RepoOf(repo_name))

C12_Witness ==
  /\ upc = "done" /\ uid = LegacyUid /\ FamilyRepo(repo_name)
  /\ repo_name_only = S_element_web
  /\ \E i \in 1..Len(repo_name) : IsUpper(repo_name[i])


\* C13: an exception raised while preparing or running the script for a
\* record with a non-null patch never leaves eval_internal: main does not
\* stop, and the record's report has patch_exists = true,
\* patch_successfully_applied = false and resolved = false.
C13_ExceptionsContained ==
  (cur.model_patch # Null /\ run.raised) =>
    /\ pc # "crashed"
    /\ pc \in {"merge", "report"} => out.isNone
    /\ Ended =>
         /\ run.reported
         /\ fs[<<cur.model_name_or_path, cur.instance_id>>].report_json.data
              = (cur.instance_id :>
                   [patch_is_None |-> FALSE, patch_exists |-> TRUE,
                    patch_successfully_applied |-> FALSE,
                    resolved |-> FALSE])


\* parser contents named by C14: invalid syntax, valid JSON that is not an
\* object, an object whose tests value is not a list of {name, status}
Unusable(c) ==
  \/ c.kind \in {"badsyntax", "nonobject"}
  \/ /\ c.kind = "object"
     /\ "tests" \in DOMAIN c.obj
     /\ \/ ~c.obj.tests.isList
        \/ \E i \in 1..Len(c.obj.tests.items) :
             DOMAIN c.obj.tests.items[i] # {"name", "status"}

\* C14: whatever unusable content the parser leaves in output.json, the
\* evaluation of the record is not fatal: main raises no exception and the
\* record's report is written.
C14_ParserNeverFatal ==
  (run.wrote_output
     /\ Unusable(fs[<<cur.model_name_or_path, cur.instance_id>>].ws_output)) =>
    /\ pc # "crashed"
    /\ Ended => run.reported


\* ----------------------------------------------------- create_entryscript
\* variant of SetupLine taking the first line
SetupLine_First(text) == Split(Strip(text), "\n")[1]

\* line 39: sample["before_repo_set_cmd"].strip().split("\n")[-1]
SetupLine(text) ==
  LET lines == Split(Strip(text), "\n") IN lines[Len(lines)]

\* lines 50-53: the export line a dockerfile line contributes, as a list of
\* zero or one element
EnvLine(line) ==
  IF StartsWith(Strip(line), S_ENV)
    THEN <<ReplaceFirst(Strip(line), S_ENV, S_export)>>
    ELSE << >>

\* line 48: the list the outer loop iterates
DockerfileList == <<base_dockerfile, instance_dockerfile>>

\* lines 66-84: the script as its segments in template order
ScriptText(env, setup) ==
  <<[at |-> "env", text |-> env],
    [at |-> "cd", text |-> << >>],
    [at |-> "reset", text |-> << >>],
    [at |-> "checkout", text |-> << >>],
    [at |-> "apply", text |-> << >>],
    [at |-> "sentinel", text |-> << >>],
    [at |-> "setup", text |-> setup],
    [at |-> "run", text |-> << >>],
    [at |-> "parser", text |-> << >>]>>

InitEntry ==
  /\ sample_cmd \in SetupCmds
  /\ base_dockerfile \in Dockerfiles
  /\ instance_dockerfile \in Dockerfiles
  /\ epc = "setup"
  /\ before_repo_set_cmd = << >> /\ file_ix = 1 /\ line_ix = 1
  /\ env_cmds = << >> /\ env_block = << >> /\ entry_script = << >>
  /\ writable = TRUE /\ redo = FALSE /\ scripts = FALSE
  /\ fs = [d \in Dirs |-> EmptyDir]
  /\ count = 0
  /\ cur = [instance_id |-> "ix", model_name_or_path |-> "m1",
            model_patch |-> Null]
  /\ pc = "off"
  /\ res = EmptyDict /\ out = NoneOut /\ prepRet = << >> /\ run = FreshRun
  /\ uid = << >> /\ dockerhub_username = << >> /\ repo_name = << >>
  /\ upc = "idle"
  /\ repo_base = << >> /\ repo_name_only = << >> /\ hsh = << >>
  /\ tag = << >> /\ uri = << >>

\* line 39
E_Setup ==
  /\ epc = "setup"
  /\ before_repo_set_cmd' = SetupLine(sample_cmd)
  /\ epc' = "scan"
  /\ UNCHANGED <<hvars, uvars, sample_cmd, base_dockerfile,
                 instance_dockerfile, file_ix, line_ix, env_cmds, env_block,
                 entry_script>>

\* lines 48-53: one iteration of the inner loop
E_Line ==
  /\ epc = "scan"
  /\ LET lines == Split(DockerfileList[file_ix], "\n") IN
       /\ env_cmds' = env_cmds \o EnvLine(lines[line_ix])
       /\ IF line_ix < Len(lines)
            THEN line_ix' = line_ix + 1 /\ file_ix' = file_ix /\ epc' = epc
            ELSE IF file_ix < 2
              THEN line_ix' = 1 /\ file_ix' = file_ix + 1 /\ epc' = epc
              ELSE line_ix' = line_ix /\ file_ix' = file_ix /\ epc' = "join"
  /\ UNCHANGED <<hvars, uvars, sample_cmd, base_dockerfile,
                 instance_dockerfile, before_repo_set_cmd, env_block,
                 entry_script>>

\* line 55
E_Join ==
  /\ epc = "join"
  /\ env_block' = Join(env_cmds, <<"\n">>)
  /\ epc' = "script"
  /\ UNCHANGED <<hvars, uvars, sample_cmd, base_dockerfile,
                 instance_dockerfile, before_repo_set_cmd, file_ix, line_ix,
                 env_cmds, entry_script>>

\* lines 66-85
E_Script ==
  /\ epc = "script"
  /\ entry_script' = ScriptText(env_block, before_repo_set_cmd)
  /\ epc' = "done"
  /\ UNCHANGED <<hvars, uvars, sample_cmd, base_dockerfile,
                 instance_dockerfile, before_repo_set_cmd, file_ix, line_ix,
                 env_cmds, env_block>>

NextEntry == E_Setup \/ E_Line \/ E_Join \/ E_Script

SpecEntry == InitEntry /\ [][NextEntry]_vars


\* every line of the base dockerfile, then every line of the instance one
AllLines ==
  Split(base_dockerfile, "\n") \o Split(instance_dockerfile, "\n")

StrippedLines == [i \in 1..Len(AllLines) |-> Strip(AllLines[i])]

\* the lines that begin with ENV, each with that ENV replaced by export
Exports(lines) ==
  LET sel == SelectSeq(lines, LAMBDA l : StartsWith(l, S_ENV))
  IN [i \in 1..Len(sel) |-> S_export \o SubSeq(sel[i], 4, Len(sel[i]))]

OnePerLine(list, block) ==
  IF Len(list) = 0 THEN block = << >> ELSE Split(block, "\n") = list

\* s without its leading whitespace
LStrip(s) ==
  IF \A i \in 1..Len(s) : IsSpace(s[i]) THEN << >>
  ELSE SubSeq(s, CHOOSE i \in 1..Len(s) :
                   ~IsSpace(s[i]) /\ \A j \in 1..(i - 1) : IsSpace(s[j]),
              Len(s))

\* C15 as stated: the environment block is made of exactly the lines that
\* begin with ENV, with ENV replaced by export and the rest of the line kept
\* verbatim, base file first, one per line (a line counts as beginning with
\* ENV either as written or after its indentation).
C15_EnvVerbatim ==
  epc = "done" =>
    /\ \/ env_cmds = Exports(AllLines)
       \/ env_cmds = Exports([i \in 1..Len(AllLines) |-> LStrip(AllLines[i])])
    /\ OnePerLine(env_cmds, env_block)
    /\ entry_script[1].text = env_block

\* C15 amended: the lines are taken after their leading and trailing
\* whitespace is stripped; those that then begin with the text ENV
\* contribute the stripped line with that ENV replaced by export, base file
\* first, one per line; the others contribute nothing.
C15_EnvStripped ==
  epc = "done" =>
    /\ env_cmds = Exports(StrippedLines)
    /\ OnePerLine(env_cmds, env_block)
    /\ entry_script[1].text = env_block

C15_Witness ==
  /\ epc = "done" /\ Len(env_cmds) >= 3
  /\ \E i \in 1..Len(AllLines) :
       AllLines[i] # Strip(AllLines[i]) /\ StartsWith(Strip(AllLines[i]), S_ENV)
  /\ StartsWith(Strip(base_dockerfile), S_ENV)
  /\ StartsWith(Strip(instance_dockerfile), S_ENV)

CmdLines == Split(sample_cmd, "\n")

NonEmptyIx == {i \in 1..Len(CmdLines) : Len(CmdLines[i]) > 0}

NonBlankIx ==
  {i \in 1..Len(CmdLines) : \E j \in 1..Len(CmdLines[i]) : ~IsSpace(CmdLines[i][j])}

MaxOf(S) == CHOOSE i \in S : \A j \in S : j <= i
MinOf(S) == CHOOSE i \in S : \A j \in S : i <= j

\* s without its trailing whitespace
RStrip(s) ==
  IF \A i \in 1..Len(s) : IsSpace(s[i]) THEN << >>
  ELSE SubSeq(s, 1, MaxOf({i \in 1..Len(s) : ~IsSpace(s[i])}))

\* C16 as stated: the setup command in the script is exactly the last
\* non-empty line of before_repo_set_cmd (the last line with any character,
\* or the last line with a non-whitespace character).
C16_LastNonEmpty ==
  epc = "done" =>
    /\ \/ before_repo_set_cmd =
           (IF NonEmptyIx = {} THEN << >> ELSE CmdLines[MaxOf(NonEmptyIx)])
       \/ before_repo_set_cmd =
           (IF NonBlankIx = {} THEN << >> ELSE CmdLines[MaxOf(NonBlankIx)])
    /\ entry_script[7] = [at |-> "setup", text |-> before_repo_set_cmd]

\* C16 amended: the setup command is the last line of before_repo_set_cmd
\* after leading and trailing whitespace is stripped from the whole text:
\* the last line holding a non-whitespace character, without its trailing
\* whitespace (and without leading whitespace when no earlier line holds
\* one), empty when the text is blank; earlier lines are not in the script.
C16_LastStripped ==
  epc = "done" =>
    /\ before_repo_set_cmd =
         (IF NonBlankIx = {} THEN << >>
          ELSE IF MaxOf(NonBlankIx) = MinOf(NonBlankIx)
                 THEN Strip(CmdLines[MaxOf(NonBlankIx)])
                 ELSE RStrip(CmdLines[MaxOf(NonBlankIx)]))
    /\ entry_script[7] = [at |-> "setup", text |-> before_repo_set_cmd]

C16_Witness ==
  /\ epc = "done" /\ Cardinality(NonBlankIx) >= 2
  /\ before_repo_set_cmd # CmdLines[MaxOf(NonBlankIx)]
  /\ entry_script[7].text = before_repo_set_cmd


C18_OwnRunOnly ==
  (Ended /\ run.ran /\ run.reported /\ run.applied = "ok"
     /\ ~run.wrote_output) =>
    ReportOf(CurDir).resolved = FALSE


\* ---------------------------------------------------------------- C19
\* C19: in the report of a processed record exactly one of patch_is_None and
\* patch_exists is true, patch_is_None exactly when the record's model_patch
\* is null, whatever keys the merged output carries; and
\* patch_successfully_applied is true only if patch_exists is.
C19_PatchFlags ==
  (Ended /\ run.reported) =>
    /\ ReportOf(CurDir).patch_is_None # ReportOf(CurDir).patch_exists
    /\ ReportOf(CurDir).patch_is_None = (cur.model_patch = Null)
    /\ ReportOf(CurDir).patch_exists = (cur.model_patch # Null)
    /\ ReportOf(CurDir).patch_successfully_applied =>
         ReportOf(CurDir).patch_exists

====
